---- MODULE Spec2Model ----
(***************************************************************************)
(* Model of packages/core/src/tools/todo-write.ts: the session-scoped todo  *)
(* list tool (TodoWriteTool / TodoWriteInvocation) and its two module-level *)
(* globals, currentTodos and mostRecentlyCompletedId.                       *)
(*                                                                          *)
(* Conventions                                                              *)
(*  - A JavaScript string that the code inspects character by character     *)
(*    (id, content: truthiness, trim()) is a sequence of one-character      *)
(*    strings: "" is <<>>, " " is <<" ">>, "a" is <<"a">>.  A status is     *)
(*    only compared, so it is a TLA+ string.                                *)
(*  - `T | null` is an option: None for null, Some(x) for a value.          *)
(*  - The display string is the sequence of its tokens, in order; each      *)
(*    glyph and each ANSI escape sequence is one token:                     *)
(*      HEADER "\u{1F4CB} Todo List", BRANCH_MID "├──", BRANCH_LAST "└──",  *)
(*      BOX_EMPTY "☐", BOX_CHECKED "☑", ESC_BLUE "\x1b[34m",                *)
(*      ESC_GREEN "\x1b[32m", ESC_STRIKE "\x1b[9m", ESC_NOSTRIKE "\x1b[29m",*)
(*      ESC_RESET "\x1b[0m".                                                *)
(*  - Item objects have identity.  The store's array always holds the item  *)
(*    objects of the last accepted candidate (the spread at line 294 copies *)
(*    the array, not the items), so currentTodos[i] IS the i-th object and  *)
(*    `held` is the array the caller still holds, as indices of the store   *)
(*    objects its elements refer to.                                        *)
(***************************************************************************)
EXTENDS Integers, Sequences, FiniteSets, TLC

VARIABLES
    currentTodos,             \* global: the stored list (line 250)
    mostRecentlyCompletedId,  \* global: the recency marker (line 251)
    pc,                       \* the caller's position: "idle", "built" (it holds
                              \* an invocation) or "done" (it holds what the last
                              \* operation returned)
    params,                   \* params.todos of the invocation in hand (option)
    result,                   \* what the last build/execute returned (option)
    description,              \* what getDescription returned for the invocation
                              \* in hand (option)
    held,                     \* caller-held array whose elements are store objects
    snapshot,                 \* value last returned by getCurrentTodos (option)
    lastExecuted,             \* the list the store still holds exactly as the
                              \* last execute wrote it (option)
    lastOp,                   \* name of the operation that produced this state
    lastWrite,                \* name of the last operation that wrote the stored
                              \* list ("init" before any)
    priorTodos,               \* currentTodos before the last operation
    priorMarker,              \* mostRecentlyCompletedId before the last operation
    priorExecuted,            \* lastExecuted before the last operation
    inv,                      \* invocations whose execute calls the host starts
                              \* side by side: each one's params.todos, its
                              \* position in execute, the local
                              \* previouslyInProgress and the display returned
    running                   \* the invocations whose execute call is on the
                              \* JavaScript stack (as a set)

vars == <<currentTodos, mostRecentlyCompletedId, pc, params, result, description,
          held, snapshot, lastExecuted, lastOp, lastWrite, priorTodos,
          priorMarker, priorExecuted, inv, running>>

\* What belongs to the single caller of Spec.
callerVars == <<pc, params, result, description, held, snapshot, lastExecuted,
                lastOp, lastWrite, priorTodos, priorMarker, priorExecuted>>

----------------------------------------------------------------------------
(* Bounds *)

MaxLen == 2

NumInvocations == 2

----------------------------------------------------------------------------
(* Options and strings *)

None == <<>>

Some(x) == <<x>>

Min(S) == CHOOSE m \in S : \A n \in S : m <= n

Whitespace == {" ", "\n", "\t"}

RECURSIVE TrimStart(_)
TrimStart(s) ==
    IF s # <<>> /\ Head(s) \in Whitespace THEN TrimStart(Tail(s)) ELSE s

RECURSIVE TrimEnd(_)
TrimEnd(s) ==
    IF s # <<>> /\ s[Len(s)] \in Whitespace
    THEN TrimEnd(SubSeq(s, 1, Len(s) - 1))
    ELSE s

Trim(s) == TrimEnd(TrimStart(s))

\* Array.prototype.find: the first element at one of the indices `hits`,
\* or undefined.
FirstAt(s, hits) == IF hits = {} THEN None ELSE Some(s[Min(hits)])

----------------------------------------------------------------------------
(* The inputs a caller submits *)

ValidStatuses == <<"pending", "in_progress", "completed">>

StatusSet == {ValidStatuses[i] : i \in DOMAIN ValidStatuses}

GoodIds == {<<"a">>, <<"b">>}

ContentOf(id) == IF id = <<"a">> THEN <<"p">> ELSE <<"q">>

GoodItems ==
    {[id |-> i, content |-> ContentOf(i), status |-> s] :
        i \in GoodIds, s \in StatusSet}

BadItems ==
    { [id |-> <<>>,    content |-> <<"p">>, status |-> "pending"],
      [id |-> <<" ">>, content |-> <<"q">>, status |-> "in_progress"],
      [id |-> <<"a">>, content |-> <<>>,    status |-> "in_progress"],
      [id |-> <<"b">>, content |-> <<" ">>, status |-> "completed"],
      [id |-> <<"a">>, content |-> <<"p">>, status |-> "invalid"],
      [id |-> <<"b">>, content |-> <<" ">>, status |-> "invalid"],
      [id |-> <<>>,    content |-> <<>>,    status |-> "invalid"] }

Items == GoodItems \cup BadItems

Candidates == UNION {[1..n -> Items] : n \in 0..MaxLen}

----------------------------------------------------------------------------
(* validateToolParams *)

EmptyArrayMsg == <<"Parameter \"todos\" must be a non-empty array.">>

IdMsg(i) ==
    <<"Todo item at index ", ToString(i), " must have a non-empty \"id\" string.">>

ContentMsg(i) ==
    <<"Todo item at index ", ToString(i),
      " must have a non-empty \"content\" string.">>

StatusMsg(i) ==
    <<"Todo item at index ", ToString(i),
      " must have a valid \"status\" (pending, in_progress, or completed).">>

OneInProgressMsg == <<"Only one task can be \"in_progress\" at a time.">>

UniqueIdsMsg == <<"All todo IDs must be unique.">>

\* The schema layer, as spec section 4.1 describes it: a check of basic type
\* conformance (an array of objects with the three named string fields).
\* Every candidate drawn here has that shape, so it reports nothing.
SchemaValidator_validate(todos) == None

\* The id test of line 413 without its trim() part.
ItemCheckId_NoTrim(todo, i) ==
    IF todo.id = <<>> THEN Some(IdMsg(i)) ELSE None

\* One pass of the per-item loop body (lines 411-427); i is the 0-based index.
ItemCheckId(todo, i) ==
    IF todo.id = <<>> \/ Trim(todo.id) = <<>> THEN Some(IdMsg(i)) ELSE None

ItemCheckContent(todo, i) ==
    IF todo.content = <<>> \/ Trim(todo.content) = <<>>
    THEN Some(ContentMsg(i))
    ELSE None

ItemCheckStatus(todo, i) ==
    IF todo.status \notin StatusSet THEN Some(StatusMsg(i)) ELSE None

\* The loop body with the content test ahead of the id test.
ItemCheck_ContentFirst(todo, i) ==
    IF ItemCheckContent(todo, i) # None THEN ItemCheckContent(todo, i)
    ELSE IF ItemCheckId(todo, i) # None THEN ItemCheckId(todo, i)
    ELSE ItemCheckStatus(todo, i)

ItemCheck(todo, i) ==
    IF ItemCheckId(todo, i) # None THEN ItemCheckId(todo, i)
    ELSE IF ItemCheckContent(todo, i) # None THEN ItemCheckContent(todo, i)
    ELSE ItemCheckStatus(todo, i)

RECURSIVE ItemLoop(_, _)
ItemLoop(todos, i) ==
    IF ~(i < Len(todos)) THEN None
    ELSE IF ItemCheck(todos[i + 1], i) # None THEN ItemCheck(todos[i + 1], i)
    ELSE ItemLoop(todos, i + 1)

InProgressTasks(todos) == SelectSeq(todos, LAMBDA t : t.status = "in_progress")

\* The count test of line 434 off by one.
CheckInProgress_OffByOne(todos) ==
    IF Len(InProgressTasks(todos)) > 2 THEN Some(OneInProgressMsg) ELSE None

CheckInProgress(todos) ==
    IF Len(InProgressTasks(todos)) > 1 THEN Some(OneInProgressMsg) ELSE None

UniqueIds(todos) == {todos[i].id : i \in DOMAIN todos}

\* The comparison of line 441 turned into one that a set can never meet.
CheckUniqueIds_WrongCompare(todos) ==
    IF Len(todos) < Cardinality(UniqueIds(todos))
    THEN Some(UniqueIdsMsg)
    ELSE None

CheckUniqueIds(todos) ==
    IF Len(todos) # Cardinality(UniqueIds(todos))
    THEN Some(UniqueIdsMsg)
    ELSE None

\* The empty-array test of line 405 left out.
CheckNonEmpty_Skipped(todos) == None

CheckNonEmpty(todos) ==
    IF Len(todos) = 0 THEN Some(EmptyArrayMsg) ELSE None

validateToolParams(todos) ==
    IF SchemaValidator_validate(todos) # None THEN SchemaValidator_validate(todos)
    ELSE IF CheckNonEmpty(todos) # None THEN CheckNonEmpty(todos)
    ELSE IF ItemLoop(todos, 0) # None THEN ItemLoop(todos, 0)
    ELSE IF CheckInProgress(todos) # None THEN CheckInProgress(todos)
    ELSE CheckUniqueIds(todos)

\* validateToolParams over the candidates, tabulated once.
Violation == [todos \in Candidates |-> validateToolParams(todos)]

Accepted == {todos \in Candidates : Violation[todos] = None}

Rejected == Candidates \ Accepted

----------------------------------------------------------------------------
(* TodoWriteInvocation *)

\* Lines 277-279: currentTodos.find((t) => t.status === 'in_progress').
FindInProgress(stored) ==
    FirstAt(stored, {i \in DOMAIN stored : stored[i].status = "in_progress"})

\* Lines 281-283: todos.find((t) => t.id === id && t.status === 'completed').
FindCompleted(todos, id) ==
    FirstAt(todos, {i \in DOMAIN todos :
                       todos[i].id = id /\ todos[i].status = "completed"})

\* The same search by id alone.
FindById(todos, id) ==
    FirstAt(todos, {i \in DOMAIN todos : todos[i].id = id})

\* NewMarker without its two else branches (lines 286-291): the marker is
\* written only when a task was just completed.
NewMarker_NoElse(stored, todos) ==
    LET previouslyInProgress == FindInProgress(stored)
        nowCompleted ==
            IF previouslyInProgress = None THEN None
            ELSE FindCompleted(todos, previouslyInProgress[1].id)
    IN  IF nowCompleted # None
        THEN Some(nowCompleted[1].id)
        ELSE mostRecentlyCompletedId

\* NewMarker with the status test of line 282 dropped: the candidate is
\* searched by id alone.
NewMarker_IdOnly(stored, todos) ==
    LET previouslyInProgress == FindInProgress(stored)
    IN  IF previouslyInProgress # None
        THEN LET nowCompleted ==
                     FindById(todos, previouslyInProgress[1].id)
             IN  IF nowCompleted # None THEN Some(nowCompleted[1].id) ELSE None
        ELSE None

\* Lines 277-291: the marker execute computes from the stored list and the
\* candidate, before it overwrites the list.
NewMarker(stored, todos) ==
    LET previouslyInProgress == FindInProgress(stored)
    IN  IF previouslyInProgress # None
        THEN LET nowCompleted ==
                     FindCompleted(todos, previouslyInProgress[1].id)
             IN  IF nowCompleted # None THEN Some(nowCompleted[1].id) ELSE None
        ELSE None

\* The switch with line 346 testing only that a marker is set.
StyledContent_AnyMarker(todo, marker) ==
    IF todo.status = "in_progress"
    THEN <<"ESC_BLUE">> \o todo.content \o <<"ESC_RESET">>
    ELSE IF todo.status = "completed"
    THEN IF marker # None
         THEN <<"ESC_GREEN", "ESC_STRIKE">> \o todo.content
                  \o <<"ESC_NOSTRIKE", "ESC_RESET">>
         ELSE <<"ESC_STRIKE">> \o todo.content \o <<"ESC_NOSTRIKE", "ESC_RESET">>
    ELSE todo.content

\* Lines 339-358: the styled content of one line.
StyledContent(todo, marker) ==
    IF todo.status = "in_progress"
    THEN <<"ESC_BLUE">> \o todo.content \o <<"ESC_RESET">>
    ELSE IF todo.status = "completed"
    THEN IF Some(todo.id) = marker
         THEN <<"ESC_GREEN", "ESC_STRIKE">> \o todo.content
                  \o <<"ESC_NOSTRIKE", "ESC_RESET">>
         ELSE <<"ESC_STRIKE">> \o todo.content \o <<"ESC_NOSTRIKE", "ESC_RESET">>
    ELSE todo.content

StatusIcon(todo) ==
    IF todo.status = "completed" THEN "BOX_CHECKED" ELSE "BOX_EMPTY"

\* The forEach body with isLast (line 333) compared against the length.
DisplayLine_NoLast(todos, index, marker) ==
    LET isLast == index = Len(todos)
        prefix == IF isLast THEN "BRANCH_LAST" ELSE "BRANCH_MID"
        todo   == todos[index + 1]
    IN  <<prefix, " ", StatusIcon(todo), " ">> \o StyledContent(todo, marker)
            \o <<"\n">>

\* Lines 333-360: one iteration of the forEach; index is 0-based.
DisplayLine(todos, index, marker) ==
    LET isLast == index = Len(todos) - 1
        prefix == IF isLast THEN "BRANCH_LAST" ELSE "BRANCH_MID"
        todo   == todos[index + 1]
    IN  <<prefix, " ", StatusIcon(todo), " ">> \o StyledContent(todo, marker)
            \o <<"\n">>

RECURSIVE DisplayLines(_, _, _)
DisplayLines(todos, index, marker) ==
    IF ~(index < Len(todos)) THEN <<>>
    ELSE DisplayLine(todos, index, marker) \o DisplayLines(todos, index + 1, marker)

generateTodoDisplay(todos, marker) ==
    IF Len(todos) = 0
    THEN <<"HEADER", "\n", "BRANCH_LAST", " ", "No todos currently tracked.">>
    ELSE Trim(<<"HEADER", "\n">> \o DisplayLines(todos, 0, marker))

CountStatus(todos, s) == Len(SelectSeq(todos, LAMBDA t : t.status = s))

\* The summary with the pending count taken as what completed leaves over.
generateSummary_PendingAsRest(todos) ==
    <<ToString(Len(todos)), " total tasks: ",
      ToString(CountStatus(todos, "completed")), " completed, ",
      ToString(CountStatus(todos, "in_progress")), " in progress, ",
      ToString(Len(todos) - CountStatus(todos, "completed")), " pending">>

generateSummary(todos) ==
    <<ToString(Len(todos)), " total tasks: ",
      ToString(CountStatus(todos, "completed")), " completed, ",
      ToString(CountStatus(todos, "in_progress")), " in progress, ",
      ToString(CountStatus(todos, "pending")), " pending">>

\* Lines 259-265: the reduce of getDescription, from index i on; acc is the
\* accumulator object, a function from the statuses seen so far to counts.
RECURSIVE StatusCounts(_, _, _)
StatusCounts(todos, i, acc) ==
    IF ~(i < Len(todos)) THEN acc
    ELSE LET status == todos[i + 1].status
             old    == IF status \in DOMAIN acc THEN acc[status] ELSE 0
         IN  StatusCounts(todos, i + 1,
                 [k \in DOMAIN acc \cup {status} |->
                      IF k = status THEN old + 1 ELSE acc[k]])

\* statusCounts.key || 0 (lines 267-269).
CountOrZero(statusCounts, key) ==
    IF key \in DOMAIN statusCounts THEN statusCounts[key] ELSE 0

\* Lines 257-272.  CLIPBOARD is the glyph "\u{1F4CB}".
getDescription(todos) ==
    LET todoCount    == Len(todos)
        statusCounts == StatusCounts(todos, 0, <<>>)
        inProgress   == CountOrZero(statusCounts, "in_progress")
        pending      == CountOrZero(statusCounts, "pending")
        completed    == CountOrZero(statusCounts, "completed")
    IN  <<"CLIPBOARD", " Managing ", ToString(todoCount), " tasks: ",
          ToString(inProgress), " in progress, ",
          ToString(pending), " pending, ",
          ToString(completed), " completed">>

\* Line 294: [...this.params.todos] is a new array of the same item objects.
SpreadCopy(todos) == [i \in 1..Len(todos) |-> todos[i]]

\* The indices of the store objects, in store order: what an array that was
\* just copied from (or into) the store refers to.
AllRefs(stored) == [i \in 1..Len(stored) |-> i]

SuccessResult(todos, marker) ==
    [success       |-> TRUE,
     error         |-> None,
     todos         |-> todos,
     summary       |-> generateSummary(todos),
     returnDisplay |-> generateTodoDisplay(todos, marker)]

FailureResult(message) ==
    [success       |-> FALSE,
     error         |-> message,
     todos         |-> <<>>,
     summary       |-> <<>>,
     returnDisplay |-> message]

----------------------------------------------------------------------------
(* State machine *)

InitStore ==
    /\ currentTodos = <<>>
    /\ mostRecentlyCompletedId = None
    /\ pc = "idle"
    /\ params = None
    /\ result = None
    /\ description = None
    /\ held = <<>>
    /\ snapshot = None
    /\ lastExecuted = None
    /\ lastOp = "init"
    /\ lastWrite = "init"
    /\ priorTodos = <<>>
    /\ priorMarker = None
    /\ priorExecuted = None

Init ==
    /\ InitStore
    /\ inv = <<>>
    /\ running = {}

\* What every operation records of the state it started from.
Remember(op) ==
    /\ lastOp' = op
    /\ lastWrite' = (IF op \in {"execute", "clearTodos", "mutateItem"}
                     THEN op
                     ELSE lastWrite)
    /\ priorTodos' = currentTodos
    /\ priorMarker' = mostRecentlyCompletedId
    /\ priorExecuted' = lastExecuted
    /\ UNCHANGED <<inv, running>>

\* tool.build(params), accepted: validateToolParams returns null and
\* createInvocation (lines 448-450) wraps the params.
BuildAccept(todos) ==
    /\ pc = "idle"
    /\ todos \in Accepted
    /\ pc' = "built"
    /\ params' = Some(todos)
    /\ held' = <<>>
    /\ Remember("build")
    /\ UNCHANGED <<currentTodos, mostRecentlyCompletedId, result, description,
                   snapshot, lastExecuted>>

\* tool.build(params), rejected: the violation message comes back as a
\* structured failure and no invocation is created.
BuildReject(todos) ==
    /\ pc = "idle"
    /\ todos \in Rejected
    /\ pc' = "done"
    /\ params' = Some(todos)
    /\ result' = Some(FailureResult(Violation[todos][1]))
    /\ held' = <<>>
    /\ Remember("reject")
    /\ UNCHANGED <<currentTodos, mostRecentlyCompletedId, description, snapshot,
                   lastExecuted>>

\* invocation.getDescription(), lines 257-272, asked of the invocation in
\* hand before it is executed.
CallGetDescription ==
    /\ pc = "built"
    /\ description = None
    /\ description' = Some(getDescription(params[1]))
    /\ Remember("getDescription")
    /\ UNCHANGED <<currentTodos, mostRecentlyCompletedId, pc, params, result,
                   held, snapshot, lastExecuted>>

\* invocation.execute(signal), lines 274-308.  The function holds no await, so
\* it runs to completion as one step.  Nothing in the try block throws on a
\* list of item records, so the catch branch (lines 309-320) is not taken.
Execute ==
    /\ pc = "built"
    /\ mostRecentlyCompletedId' = NewMarker(currentTodos, params[1])
    /\ currentTodos' = SpreadCopy(params[1])
    /\ result' = Some(SuccessResult(params[1], mostRecentlyCompletedId'))
    /\ held' = AllRefs(currentTodos')
    /\ lastExecuted' = Some(params[1])
    /\ pc' = "done"
    /\ Remember("execute")
    /\ UNCHANGED <<params, description, snapshot>>

\* The orchestrator consumes what the last operation returned and moves on;
\* the array it built or was handed stays in its hands.
Consume ==
    /\ pc = "done"
    /\ pc' = "idle"
    /\ params' = None
    /\ result' = None
    /\ description' = None
    /\ snapshot' = None
    /\ Remember("consume")
    /\ UNCHANGED <<currentTodos, mostRecentlyCompletedId, held, lastExecuted>>

\* TodoWriteTool.getCurrentTodos(), lines 455-457.
getCurrentTodos ==
    /\ pc = "idle"
    /\ snapshot' = Some(SpreadCopy(currentTodos))
    /\ held' = AllRefs(currentTodos)
    /\ pc' = "done"
    /\ Remember("getCurrentTodos")
    /\ UNCHANGED <<currentTodos, mostRecentlyCompletedId, params, result,
                   description, lastExecuted>>

\* What clearTodos leaves in the marker: the function assigns currentTodos
\* only (line 463).
MarkerAfterClear(marker) == marker

\* TodoWriteTool.clearTodos(), lines 462-464.
clearTodos ==
    /\ pc = "idle"
    /\ currentTodos' = <<>>
    /\ mostRecentlyCompletedId' = MarkerAfterClear(mostRecentlyCompletedId)
    /\ held' = <<>>
    /\ lastExecuted' = None
    /\ pc' = "done"
    /\ Remember("clearTodos")
    /\ UNCHANGED <<params, result, description, snapshot>>

\* The caller writes a field of an item object it reached through the array
\* it holds (the candidate it submitted, or the array getCurrentTodos
\* returned).  The object is the store's own: line 294 and line 456 copy the
\* array only.
MutateItem(k, field, value) ==
    /\ pc = "idle"
    /\ k \in DOMAIN held
    /\ currentTodos[held[k]][field] # value
    /\ currentTodos' = [currentTodos EXCEPT ![held[k]][field] = value]
    /\ lastExecuted' = None
    /\ pc' = "done"
    /\ Remember("mutateItem")
    /\ UNCHANGED <<mostRecentlyCompletedId, params, result, description, held,
                   snapshot>>

\* The caller pops the last element off the array it holds.  The store's
\* array is another array (the spread), so only the caller's array changes.
MutateArray ==
    /\ pc = "idle"
    /\ held # <<>>
    /\ held' = SubSeq(held, 1, Len(held) - 1)
    /\ pc' = "done"
    /\ Remember("mutateArray")
    /\ UNCHANGED <<currentTodos, mostRecentlyCompletedId, params, result,
                   description, snapshot, lastExecuted>>

Next ==
    \/ \E todos \in Accepted : BuildAccept(todos)
    \/ \E todos \in Rejected : BuildReject(todos)
    \/ CallGetDescription
    \/ Execute
    \/ Consume
    \/ getCurrentTodos
    \/ clearTodos
    \/ \E k \in 1..MaxLen, v \in StatusSet : MutateItem(k, "status", v)
    \/ MutateArray

Spec == Init /\ [][Next]_vars

\* The operations of the tool alone: submissions, descriptions, snapshots and
\* clears, with no caller write to an array or item it holds.
NextCalls ==
    \/ \E todos \in Accepted : BuildAccept(todos)
    \/ \E todos \in Rejected : BuildReject(todos)
    \/ CallGetDescription
    \/ Execute
    \/ Consume
    \/ getCurrentTodos
    \/ clearTodos

SpecCalls == Init /\ [][NextCalls]_vars

----------------------------------------------------------------------------
(* Invocations started side by side *)

\* Every accepted list may be the params of any of the invocations.
ConcInit ==
    /\ InitStore
    /\ inv \in [1..NumInvocations ->
                  {[todos |-> t, at |-> "built", previouslyInProgress |-> None,
                    returnDisplay |-> None] : t \in Accepted}]
    /\ running = {}

\* As RunsToCompletion, had execute an await between its statements: the
\* event loop may then run a statement of any invocation.
RunsToCompletion_Awaits(j) == TRUE

\* execute (lines 274-308) is an async function with no await in its body:
\* once called it runs to its return before any other call is served, so a
\* statement of invocation j runs only if no other execute is on the stack.
RunsToCompletion(j) == running \subseteq {j}

\* Lines 277-279: read the stored list.
ExecFind(j) ==
    /\ inv[j].at = "built"
    /\ RunsToCompletion(j)
    /\ running' = {j}
    /\ inv' = [inv EXCEPT ![j].at = "found",
                          ![j].previouslyInProgress = FindInProgress(currentTodos)]
    /\ UNCHANGED <<currentTodos, mostRecentlyCompletedId, callerVars>>

\* Lines 280-291: write the marker.
ExecMark(j) ==
    /\ inv[j].at = "found"
    /\ RunsToCompletion(j)
    /\ mostRecentlyCompletedId' =
           (IF inv[j].previouslyInProgress # None
            THEN LET nowCompleted ==
                         FindCompleted(inv[j].todos,
                                       inv[j].previouslyInProgress[1].id)
                 IN  IF nowCompleted # None THEN Some(nowCompleted[1].id)
                                            ELSE None
            ELSE None)
    /\ inv' = [inv EXCEPT ![j].at = "marked"]
    /\ UNCHANGED <<currentTodos, running, callerVars>>

\* Line 294: write the list.
ExecStore(j) ==
    /\ inv[j].at = "marked"
    /\ RunsToCompletion(j)
    /\ currentTodos' = SpreadCopy(inv[j].todos)
    /\ inv' = [inv EXCEPT ![j].at = "stored"]
    /\ UNCHANGED <<mostRecentlyCompletedId, running, callerVars>>

\* Lines 297-308: render with the marker as it is now, and return.
ExecReturn(j) ==
    /\ inv[j].at = "stored"
    /\ RunsToCompletion(j)
    /\ inv' = [inv EXCEPT
                  ![j].at = "returned",
                  ![j].returnDisplay =
                      Some(generateTodoDisplay(inv[j].todos,
                                               mostRecentlyCompletedId))]
    /\ running' = running \ {j}
    /\ UNCHANGED <<currentTodos, mostRecentlyCompletedId, callerVars>>

ConcNext ==
    \/ \E j \in 1..NumInvocations : ExecFind(j)
    \/ \E j \in 1..NumInvocations : ExecMark(j)
    \/ \E j \in 1..NumInvocations : ExecStore(j)
    \/ \E j \in 1..NumInvocations : ExecReturn(j)

SpecConc == ConcInit /\ [][ConcNext]_vars

----------------------------------------------------------------------------
(* The data-model invariants of a task list, stated on their own *)

NonBlank(s) == \E i \in DOMAIN s : s[i] \notin Whitespace

ItemOk(t) ==
    /\ NonBlank(t.id)
    /\ NonBlank(t.content)
    /\ t.status \in {"pending", "in_progress", "completed"}

InProgressAt(todos) == {i \in DOMAIN todos : todos[i].status = "in_progress"}

HasDuplicateId(todos) ==
    \E i, j \in DOMAIN todos : i < j /\ todos[i].id = todos[j].id

WellFormed(todos) ==
    /\ Len(todos) >= 1
    /\ \A i \in DOMAIN todos : ItemOk(todos[i])
    /\ Cardinality(InProgressAt(todos)) <= 1
    /\ ~HasDuplicateId(todos)

ViolationMessages ==
    {EmptyArrayMsg, OneInProgressMsg, UniqueIdsMsg}
        \cup {IdMsg(i) : i \in 0..MaxLen}
        \cup {ContentMsg(i) : i \in 0..MaxLen}
        \cup {StatusMsg(i) : i \in 0..MaxLen}

----------------------------------------------------------------------------
(* C1 *)

PriorInProgressAt == InProgressAt(priorTodos)

\* The marker the claim prescribes: the id of the task that was in_progress
\* in the pre-update list (the first one, should outside writes have left
\* several) when the candidate holds that id as completed, else none.
C1_Prescribed ==
    IF PriorInProgressAt = {} THEN None
    ELSE LET prior == priorTodos[Min(PriorInProgressAt)]
         IN  IF \E j \in DOMAIN params[1] :
                      /\ params[1][j].id = prior.id
                      /\ params[1][j].status = "completed"
             THEN Some(prior.id)
             ELSE None

\* C1: after every accepted update, mostRecentlyCompletedId is exactly the
\* value determined by the pre-update stored list and the candidate; a marker
\* left by the previous update survives only if this update has its own
\* in_progress -> completed transition.
C1_MarkerDetermined ==
    lastOp = "execute" => mostRecentlyCompletedId = C1_Prescribed

\* An update that replaces one marker by another: "a" had just been
\* completed, "b" was in progress and is completed by this update.
C1_Witness ==
    /\ lastOp = "execute"
    /\ priorMarker = Some(<<"a">>)
    /\ mostRecentlyCompletedId = Some(<<"b">>)
    /\ \E j \in DOMAIN params[1] :
           params[1][j].id = <<"a">> /\ params[1][j].status = "completed"

----------------------------------------------------------------------------
(* C2 *)

----------------------------------------------------------------------------
(* C3 *)

\* C3: after clearTodos the stored list is empty and the marker is none.
C3_ClearResetsBoth ==
    lastOp = "clearTodos" =>
        currentTodos = <<>> /\ mostRecentlyCompletedId = None

----------------------------------------------------------------------------
(* C4 *)

\* C4: nothing the caller writes into an array it holds (the candidate it
\* submitted or the array getCurrentTodos returned), or into an item of that
\* array, changes what the store holds.
C4_NoAliasing ==
    lastOp \in {"mutateItem", "mutateArray"} => currentTodos = priorTodos

----------------------------------------------------------------------------
(* C5 *)

\* C5: an update whose candidate is the list the previous update stored
\* (no clear and no outside write in between) leaves the marker none.
C5_SecondReplaceClears ==
    (lastOp = "execute" /\ priorExecuted = Some(params[1])) =>
        mostRecentlyCompletedId = None

\* The second of two equal updates, where the first one had set the marker
\* and the list still has a task in progress.
C5_Witness ==
    /\ lastOp = "execute"
    /\ priorExecuted = Some(params[1])
    /\ priorMarker # None
    /\ mostRecentlyCompletedId = None
    /\ InProgressAt(params[1]) # {}

----------------------------------------------------------------------------
(* What a submission came to *)

Submitted == params # None

\* The violation the submission in hand was rejected with, or none.
Reported == IF lastOp = "reject" THEN Some(result[1].error) ELSE None

AllItemsOk(todos) == \A i \in DOMAIN todos : ItemOk(todos[i])

----------------------------------------------------------------------------
(* C6 *)

\* C6 as stated: every list with two or more in_progress items is rejected
\* with the "Only one task can be in_progress" message, whatever the other
\* fields hold.
C6_AnyFields ==
    (Submitted /\ Cardinality(InProgressAt(params[1])) >= 2) =>
        Reported = Some(OneInProgressMsg)

\* C6 amended: every list with two or more in_progress items in which no
\* item has an id, content or status error is rejected with the "Only one
\* task can be in_progress" message, whatever the ids are (duplicates
\* included).
C6_WhenItemsPass ==
    (/\ Submitted
     /\ Cardinality(InProgressAt(params[1])) >= 2
     /\ AllItemsOk(params[1])) =>
        Reported = Some(OneInProgressMsg)

\* Two in_progress items that also share their id.
C6_Witness ==
    /\ Submitted
    /\ lastOp = "reject"
    /\ Cardinality(InProgressAt(params[1])) >= 2
    /\ HasDuplicateId(params[1])
    /\ Reported = Some(OneInProgressMsg)

----------------------------------------------------------------------------
(* C7 *)

\* C7 as stated: every list in which an id occurs more than once is rejected
\* with the "All todo IDs must be unique" message, whatever the statuses.
C7_AnyStatuses ==
    (Submitted /\ HasDuplicateId(params[1])) => Reported = Some(UniqueIdsMsg)

\* C7 amended: every list in which an id occurs more than once, no item has
\* an id, content or status error and at most one item is in_progress is
\* rejected with the "All todo IDs must be unique" message.
C7_WhenEarlierChecksPass ==
    (/\ Submitted
     /\ HasDuplicateId(params[1])
     /\ AllItemsOk(params[1])
     /\ Cardinality(InProgressAt(params[1])) <= 1) =>
        Reported = Some(UniqueIdsMsg)

\* The same id twice, once in_progress and once completed.
C7_Witness ==
    /\ Submitted
    /\ lastOp = "reject"
    /\ Len(params[1]) = 2
    /\ params[1][1].id = params[1][2].id
    /\ params[1][1].status = "in_progress"
    /\ params[1][2].status = "completed"
    /\ Reported = Some(UniqueIdsMsg)

----------------------------------------------------------------------------
(* C8 *)

BadAt(todos) == {i \in DOMAIN todos : ~ItemOk(todos[i])}

\* The error of one item: id before content before status; idx is 0-based.
ItemViolation(t, idx) ==
    IF ~NonBlank(t.id) THEN IdMsg(idx)
    ELSE IF ~NonBlank(t.content) THEN ContentMsg(idx)
    ELSE StatusMsg(idx)

\* The first violation in the fixed order of the four classes.
FirstViolation(todos) ==
    IF Len(todos) = 0 THEN Some(EmptyArrayMsg)
    ELSE IF BadAt(todos) # {}
    THEN Some(ItemViolation(todos[Min(BadAt(todos))], Min(BadAt(todos)) - 1))
    ELSE IF Cardinality(InProgressAt(todos)) > 1 THEN Some(OneInProgressMsg)
    ELSE IF HasDuplicateId(todos) THEN Some(UniqueIdsMsg)
    ELSE None

\* C8: a submission reports exactly the first violation in the order empty
\* array, per-item errors (lowest index; id, then content, then status),
\* more than one in_progress, duplicate ids; a later class is reported only
\* when no earlier one is present.
C8_FirstViolationReported ==
    Submitted => Reported = FirstViolation(params[1])

\* A sound first item, then an item with an id, a content and a status
\* error at once: the id error of index 1 is what comes back.
C8_Witness ==
    /\ Submitted
    /\ lastOp = "reject"
    /\ Len(params[1]) = 2
    /\ ItemOk(params[1][1])
    /\ ~NonBlank(params[1][2].id)
    /\ ~NonBlank(params[1][2].content)
    /\ params[1][2].status = "invalid"
    /\ Reported = Some(IdMsg(1))

----------------------------------------------------------------------------
(* C9 *)

\* C9: a submission is accepted exactly when the list is non-empty, every
\* item has a non-blank id and content and one of the three statuses, at
\* most one item is in_progress and the ids are pairwise distinct.
C9_AcceptsExactlyWellFormed ==
    Submitted => (Reported = None <=> WellFormed(params[1]))

\* An accepted two-item list with one task in progress.
C9_Witness ==
    /\ pc = "built"
    /\ Len(params[1]) = 2
    /\ Cardinality(InProgressAt(params[1])) = 1
    /\ WellFormed(params[1])

----------------------------------------------------------------------------
(* C10 *)

RECURSIVE SplitLines(_)
SplitLines(s) ==
    IF \A i \in DOMAIN s : s[i] # "\n" THEN <<s>>
    ELSE LET cut == Min({i \in DOMAIN s : s[i] = "\n"})
         IN  <<SubSeq(s, 1, cut - 1)>> \o SplitLines(SubSeq(s, cut + 1, Len(s)))

StartsWith(s, pre) == Len(s) >= Len(pre) /\ SubSeq(s, 1, Len(pre)) = pre

\* The emphasis a display line shows: what follows the branch glyph, the
\* box glyph and their two blanks.
Emphasis(line) ==
    LET text == SubSeq(line, 5, Len(line))
    IN  IF StartsWith(text, <<"ESC_GREEN", "ESC_STRIKE">>) THEN "just finished"
        ELSE IF StartsWith(text, <<"ESC_STRIKE">>) THEN "struck"
        ELSE IF StartsWith(text, <<"ESC_BLUE">>) THEN "active"
        ELSE "plain"

EmphasisDue(t, marker) ==
    IF t.status = "pending" THEN "plain"
    ELSE IF t.status = "in_progress" THEN "active"
    ELSE IF Some(t.id) = marker THEN "just finished"
    ELSE "struck"

DisplayedLines == SplitLines(result[1].returnDisplay)

JustFinishedLines ==
    {k \in DOMAIN params[1] : Emphasis(DisplayedLines[k + 1]) = "just finished"}

----------------------------------------------------------------------------
(* C11 *)

EscapeTokens ==
    {"ESC_BLUE", "ESC_GREEN", "ESC_STRIKE", "ESC_NOSTRIKE", "ESC_RESET"}

\* The text a display line carries once its styling is taken off.
LineText(line) ==
    SelectSeq(SubSeq(line, 5, Len(line)), LAMBDA c : c \notin EscapeTokens)

\* C11: order is kept as submitted.  After an accepted update the store
\* holds the candidate's items in the candidate's order, getCurrentTodos
\* returns them in that order, the display has one line per item in that
\* order, and the terminal branch glyph stands on the last line and on no
\* other (the others carry the continuing glyph).
C11_OrderPreserved ==
    /\ lastOp = "execute" =>
           /\ currentTodos = params[1]
           /\ Len(DisplayedLines) = Len(params[1]) + 1
           /\ DisplayedLines[1] = <<"HEADER">>
           /\ \A k \in DOMAIN params[1] :
                  /\ LineText(DisplayedLines[k + 1]) = params[1][k].content
                  /\ DisplayedLines[k + 1][1]
                         = (IF k = Len(params[1]) THEN "BRANCH_LAST"
                                                  ELSE "BRANCH_MID")
    /\ (lastOp = "getCurrentTodos" /\ lastExecuted # None) =>
           snapshot = lastExecuted

\* Task "b" submitted ahead of task "a": stored and displayed in that order,
\* the terminal glyph on the second line only.
C11_Witness ==
    /\ lastOp = "execute"
    /\ Len(params[1]) = 2
    /\ params[1][1].id = <<"b">>
    /\ params[1][2].id = <<"a">>
    /\ currentTodos[1].id = <<"b">>
    /\ LineText(DisplayedLines[2]) = <<"q">>
    /\ LineText(DisplayedLines[3]) = <<"p">>
    /\ DisplayedLines[2][1] = "BRANCH_MID"
    /\ DisplayedLines[3][1] = "BRANCH_LAST"

----------------------------------------------------------------------------
(* C12 *)

Tally(todos, status) ==
    Cardinality({i \in DOMAIN todos : todos[i].status = status})

TalliesAddUp(todos) ==
    Tally(todos, "completed") + Tally(todos, "in_progress")
        + Tally(todos, "pending") = Len(todos)

\* C12: for every accepted list the summary of the success payload and the
\* description given before execution report the list's length as the total
\* and, for each status, the number of items that have it; the three counts
\* add up to the total.
C12_ExactTallies ==
    /\ lastOp = "execute" =>
           /\ result[1].summary =
                  <<ToString(Len(params[1])), " total tasks: ",
                    ToString(Tally(params[1], "completed")), " completed, ",
                    ToString(Tally(params[1], "in_progress")), " in progress, ",
                    ToString(Tally(params[1], "pending")), " pending">>
           /\ TalliesAddUp(params[1])
    /\ description # None =>
           /\ description[1] =
                  <<"CLIPBOARD", " Managing ",
                    ToString(Len(params[1])), " tasks: ",
                    ToString(Tally(params[1], "in_progress")), " in progress, ",
                    ToString(Tally(params[1], "pending")), " pending, ",
                    ToString(Tally(params[1], "completed")), " completed">>
           /\ TalliesAddUp(params[1])

\* A two-item list, one task in progress and one pending, described and
\* then executed: the summary of spec section 8's example.
C12_Witness ==
    /\ lastOp = "execute"
    /\ description # None
    /\ Len(params[1]) = 2
    /\ Tally(params[1], "in_progress") = 1
    /\ Tally(params[1], "pending") = 1
    /\ result[1].summary =
           <<"2", " total tasks: ", "0", " completed, ", "1", " in progress, ",
             "1", " pending">>

----------------------------------------------------------------------------
(* C14 *)

----------------------------------------------------------------------------
(* C15 *)

MarkedAt == {i \in DOMAIN currentTodos : Some(currentTodos[i].id)
                                             = mostRecentlyCompletedId}

\* C15: whenever the marker is set, the stored list holds exactly one item
\* with that id, and that item is completed.
C15_MarkerNamesStoredCompleted ==
    mostRecentlyCompletedId # None =>
        /\ Cardinality(MarkedAt) = 1
        /\ \A i \in MarkedAt : currentTodos[i].status = "completed"

----------------------------------------------------------------------------
(* C13 *)

SerialOrders ==
    {o \in [1..NumInvocations -> 1..NumInvocations] :
        \A a, b \in 1..NumInvocations : o[a] = o[b] => a = b}

\* The store after the first k invocations of order o ran one after another
\* from the initial store.
RECURSIVE SerialAfter(_, _)
SerialAfter(o, k) ==
    IF k = 0 THEN [todos |-> <<>>, marker |-> None]
    ELSE LET before == SerialAfter(o, k - 1)
             list   == inv[o[k]].todos
         IN  [todos |-> list, marker |-> NewMarker(before.todos, list)]

SerialMatches(o) ==
    /\ currentTodos = SerialAfter(o, NumInvocations).todos
    /\ mostRecentlyCompletedId = SerialAfter(o, NumInvocations).marker
    /\ \A k \in 1..NumInvocations :
           inv[o[k]].returnDisplay =
               Some(generateTodoDisplay(inv[o[k]].todos, SerialAfter(o, k).marker))

InsideExecute == {j \in DOMAIN inv : inv[j].at \in {"found", "marked", "stored"}}

AllReturned == inv # <<>> /\ \A j \in DOMAIN inv : inv[j].at = "returned"

\* C13: of the invocations started side by side at most one is ever between
\* its read of the stored list and its return, so none reads the list or the
\* marker between another's marker write and list write; and once all have
\* returned, the displays returned and the final list and marker are those
\* of the invocations run one after another in some order.
C13_ExecuteIsAtomic ==
    /\ Cardinality(InsideExecute) <= 1
    /\ AllReturned => \E o \in SerialOrders : SerialMatches(o)

\* Both returned; invocation 2 put "a" in progress, invocation 1 completed
\* it and its display and the final marker say so.
C13_Witness ==
    /\ AllReturned
    /\ inv[2].todos = <<[id |-> <<"a">>, content |-> <<"p">>,
                         status |-> "in_progress"]>>
    /\ inv[1].todos = <<[id |-> <<"a">>, content |-> <<"p">>,
                         status |-> "completed"]>>
    /\ currentTodos = inv[1].todos
    /\ mostRecentlyCompletedId = Some(<<"a">>)
    /\ StartsWith(SubSeq(inv[1].returnDisplay[1], 7, 8),
                  <<"ESC_GREEN", "ESC_STRIKE">>)

====
